---------------------------- MODULE Spec2Model ----------------------------
(***************************************************************************)
(* Model of the hedging dashboard.                                         *)
(*                                                                         *)
(* HedgingStrategy component (src/unnamed/part_002): the six useState      *)
(* cells, the handlers wired to the select, the three sliders and the two  *)
(* premium inputs, and the values derived on every render (payoffData,     *)
(* breakeven, maxLoss, maxGain).  Specification Spec.                      *)
(*                                                                         *)
(* Add-to-portfolio dialog of the StockSearch component                    *)
(* (src/frontend/src/components/StockSearch.tsx), together with the        *)
(* refresh callback that DashboardPage keeps in its portfolioRefresh       *)
(* state cell and that the Portfolio component registers.  Specification   *)
(* SpecAdd runs the dialog as the page lets a user drive it, together     *)
(* with the steps of the search box of the same component;                 *)
(* specification SpecConfirm applies the handler confirmAddToPortfolio to  *)
(* every state of the dialog's cells.                                      *)
(*                                                                         *)
(* DatabaseService (src/frontend/src/services/database.ts) over the        *)
(* tables of src/frontend/src/database/schema.sql: portfolios, holdings,   *)
(* hedging_strategies, risk_metrics, simulation_results and pet_states,    *)
(* with their NOT NULL, CHECK, UNIQUE and foreign-key constraints.         *)
(* Specification SpecDb.                                                   *)
(*                                                                         *)
(* DashboardPage (src/frontend/src/pages/DashboardPage.tsx) with the       *)
(* Portfolio component (src/frontend/src/components/Portfolio.tsx): the    *)
(* page's guards on the values of useAuth(), and loadPortfolio,            *)
(* refreshPrices and removeHolding with their requests in flight.          *)
(* Specification SpecPage.                                                 *)
(*                                                                         *)
(* Search box of the StockSearch component: debounce and its timer, the    *)
(* effect on query, handleSearch, handleSelectStock and the requests to    *)
(* StockService in flight.  Specification SpecSearch.                      *)
(*                                                                         *)
(* Numbers.  A JavaScript number is modelled as a set of at most one       *)
(* integer, its value in units of 10^-FracDigits, so decimal premiums and  *)
(* Math.round(payoff * 100) / 100 are represented exactly.  NaN is the     *)
(* empty set and propagates through every arithmetic operator as in JS.    *)
(* Binary floating-point error (always far below 10^-FracDigits here) is   *)
(* not modelled; the premium texts are chosen so that no value lies        *)
(* exactly on a rounding half-way point, where that error could decide.    *)
(***************************************************************************)
EXTENDS Integers, Sequences, FiniteSets

\* HedgingStrategy
VARIABLES strategy, currentPrice, putStrike, callStrike, putPremium, callPremium

\* StockSearch (add dialog), DashboardPage and Portfolio
VARIABLES showAddDialog, stockToAdd, quantity, purchaseType, dollarAmount,
          addingToPortfolio, error, addRequests, portfolioRefresh,
          loadPortfolioCalls

\* Portfolio: its useState cells (holdings, loading and error are named
\* portfolioHoldings, portfolioLoading and portfolioError here) and, per
\* async function of the component, the number of its calls that are
\* suspended at their await
VARIABLES portfolioHoldings, stats, portfolioLoading, refreshing,
          portfolioError, awaiting

\* StockSearch (search box): its useState cells (loading is named
\* searchLoading here), debounce's timeoutId, the timers setTimeout has
\* pending, the requests to StockService that have not settled, in the
\* order of sending, and the search sent last with its outcome
VARIABLES query, searchResults, showSuggestions, searchLoading,
          selectedStock, timeoutId, timers, inFlight, lastSearch

\* StockSearch (search box): the timers onBlur of the input has set, each
\* given by the milliseconds it still has to run, in the order they were set
VARIABLES blurTimers

\* DashboardPage: what useAuth() returns (loading is named authLoading
\* here), the router's location, what the page's last render returned (null
\* also while the page is not mounted), whether the effect of that render
\* still has navigate('/login') to call, and the calls of Navbar's
\* handleSignOut that are suspended at their await
VARIABLES user, authLoading, location, rendered, navigatePending, signOuts

\* the database behind DatabaseService
VARIABLES portfolios, holdings, hedging_strategies, risk_metrics,
          simulation_results, pet_states, lastId, dbError

hedgingVars ==
    <<strategy, currentPrice, putStrike, callStrike, putPremium, callPremium>>

dialogVars ==
    <<showAddDialog, stockToAdd, quantity, purchaseType, dollarAmount,
      addingToPortfolio, error, addRequests>>

pageVars == <<portfolioRefresh, loadPortfolioCalls>>

dbVars ==
    <<portfolios, holdings, hedging_strategies, risk_metrics,
      simulation_results, pet_states, lastId, dbError>>

portfolioVars ==
    <<portfolioHoldings, stats, portfolioLoading, refreshing, portfolioError,
      awaiting>>

searchVars ==
    <<query, searchResults, showSuggestions, searchLoading, selectedStock,
      timeoutId, timers, inFlight, lastSearch, blurTimers>>

authVars ==
    <<user, authLoading, location, rendered, navigatePending, signOuts>>

vars ==
    <<hedgingVars, dialogVars, pageVars, dbVars, portfolioVars, searchVars,
      authVars>>

\* what a handler of HedgingStrategy cannot touch
outsideHedging ==
    <<dialogVars, pageVars, dbVars, portfolioVars, searchVars, authVars>>

---------------------------------------------------------------------------
(* Bounds of the model *)

\* number of decimal digits a modelled number keeps
FracDigits == 3

\* the slider handlers are fired with every SliderStride-th position of the
\* slider (counted from its min), not with every position
SliderStride == 25

\* the wide price grid used to read off a strategy's theoretical cap/floor
WideLo == 0
WideHi == 200

Scale == 10 ^ FracDigits

---------------------------------------------------------------------------
(* JavaScript numbers *)

\* a number is a set holding its value in units of 10^-FracDigits; NaN is
\* the empty set, so that it propagates through every operator below
NaN == {}

Num(v) == {v}

\* an integer literal of the source, e.g. 85 or currentPrice[0]
Lit(n) == {n * Scale}

Add(a, b) == {x + y : x \in a, y \in b}

Sub(a, b) == {x - y : x \in a, y \in b}

Neg(a) == {0 - x : x \in a}

\* x * 100
Times100(a) == {x * 100 : x \in a}

\* x / 100, applied to the whole number Math.round returned
DivideBy100(a) == {x \div 100 : x \in a}

\* Math.max(a, b): NaN if either argument is NaN
MathMax2(a, b) == {IF x >= y THEN x ELSE y : x \in a, y \in b}

\* Math.round: nearest integer, ties toward +Infinity; NaN stays NaN
MathRound(a) == {((x + Scale \div 2) \div Scale) * Scale : x \in a}

\* the numbers of a sequence, or NaN if one of its elements is NaN
AllOf(xs) == IF \E i \in 1..Len(xs) : xs[i] = NaN THEN NaN
             ELSE UNION {xs[i] : i \in 1..Len(xs)}

\* Math.min(...xs) of a non-empty sequence: NaN if any element is NaN
MathMin(xs) == {x \in AllOf(xs) : \A y \in AllOf(xs) : x <= y}

\* Math.max(...xs) of a non-empty sequence: NaN if any element is NaN
MathMax(xs) == {x \in AllOf(xs) : \A y \in AllOf(xs) : x >= y}

---------------------------------------------------------------------------
(* parseFloat on the text of an input field.  A text is a sequence of      *)
(* one-character strings.  Modelled: leading blanks, an optional sign,     *)
(* decimal digits, an optional fraction; anything after the longest        *)
(* numeric prefix is ignored, and a text with no digit in that prefix is   *)
(* NaN.  Exponents and the literal Infinity are outside the modelled       *)
(* alphabet, and fraction digits after the FracDigits-th are dropped (no   *)
(* modelled text has them).                                                *)

DigitChars == <<"0", "1", "2", "3", "4", "5", "6", "7", "8", "9">>

IsDigit(c) == \E d \in 1..10 : DigitChars[d] = c

DigitVal(c) == (CHOOSE d \in 1..10 : DigitChars[d] = c) - 1

\* s without its leading blanks
RECURSIVE TrimStart(_)
TrimStart(s) ==
    IF Len(s) > 0 /\ s[1] = " " THEN TrimStart(Tail(s)) ELSE s

\* number of leading decimal digits of s
RECURSIVE DigitRun(_)
DigitRun(s) ==
    IF Len(s) > 0 /\ IsDigit(s[1]) THEN 1 + DigitRun(Tail(s)) ELSE 0

\* value of a digit sequence read as a whole number
RECURSIVE WholeVal(_)
WholeVal(ds) ==
    IF Len(ds) = 0 THEN 0
    ELSE 10 * WholeVal(SubSeq(ds, 1, Len(ds) - 1)) + DigitVal(ds[Len(ds)])

\* value, in units of 10^-FracDigits, of a digit sequence read as a fraction
FracVal(ds) ==
    LET kept == IF Len(ds) > FracDigits THEN SubSeq(ds, 1, FracDigits) ELSE ds
    IN  WholeVal(kept) * 10 ^ (FracDigits - Len(kept))

parseFloatOf(text) ==
    LET t        == TrimStart(text)
        signed   == Len(t) > 0 /\ t[1] \in {"-", "+"}
        negative == Len(t) > 0 /\ t[1] = "-"
        u        == IF signed THEN Tail(t) ELSE t
        nInt     == DigitRun(u)
        intPart  == SubSeq(u, 1, nInt)
        rest     == SubSeq(u, nInt + 1, Len(u))
        hasDot   == Len(rest) > 0 /\ rest[1] = "."
        nFrac    == IF hasDot THEN DigitRun(Tail(rest)) ELSE 0
        fracPart == IF hasDot THEN SubSeq(Tail(rest), 1, nFrac) ELSE <<>>
        mag      == WholeVal(intPart) * Scale + FracVal(fracPart)
    IN  IF nInt = 0 /\ nFrac = 0 THEN NaN
        ELSE IF negative THEN Num(0 - mag) ELSE Num(mag)

---------------------------------------------------------------------------
(* The component's state and its inputs *)

Strategies == {"collar", "protective_put", "bear_put_spread"}

\* <Slider min={50} max={150}> of the current price; min of the put slider
SliderMin == 50
SliderMax == 150

\* texts typed into a premium input: "10" (the initial text), "5", a
\* premium with more than two decimals, a negative one, and the input's
\* placeholder "$10", which does not parse
PremiumTexts ==
    { <<"1", "0">>,
      <<"5">>,
      <<"2", ".", "5", "0", "4">>,
      <<"-", "3">>,
      <<"$", "1", "0">> }

\* parseFloatOf on the modelled texts, worked out once
ParsedPremiumTexts == [text \in PremiumTexts |-> parseFloatOf(text)]

\* parseFloat(text)
parseFloat(text) ==
    IF text \in PremiumTexts THEN ParsedPremiumTexts[text] ELSE parseFloatOf(text)

\* the values a slider with the given min and max (step 1) hands to
\* onValueChange, thinned out by SliderStride
SliderValues(min, max) ==
    { v \in min..max : (v - min) % SliderStride = 0 }

\* max of the put strike slider
PutStrikeMax == currentPrice - 5

\* min of the second strike slider
CallStrikeMin ==
    IF strategy = "bear_put_spread" THEN putStrike + 5 ELSE currentPrice + 5

\* the second strike slider and the second premium input are rendered
SecondLegShown == strategy = "collar" \/ strategy = "bear_put_spread"

\* the useState cells of StockSearch that the add dialog uses; a text is a
\* sequence of one-character strings, and stockToAdd null is the empty text
InitStockSearch ==
    /\ showAddDialog = FALSE
    /\ stockToAdd = <<>>
    /\ quantity = <<>>
    /\ purchaseType = "shares"
    /\ dollarAmount = <<>>
    /\ addingToPortfolio = FALSE
    /\ error = ""
    /\ addRequests = <<>>

\* useState<(() => void) | null>(null) of DashboardPage, and no call of
\* Portfolio's loadPortfolio so far
InitDashboardPage ==
    /\ portfolioRefresh = "null"
    /\ loadPortfolioCalls = 0

\* the tables as schema.sql creates them: empty
InitDatabase ==
    /\ portfolios = {}
    /\ holdings = {}
    /\ hedging_strategies = {}
    /\ risk_metrics = {}
    /\ simulation_results = {}
    /\ pet_states = {}
    /\ lastId = 0
    /\ dbError = "none"

\* the stats of an empty portfolio
zeroStats ==
    [totalValue |-> 0, totalGainLoss |-> 0, totalGainLossPercent |-> 0,
     totalInvested |-> 0]

\* the async functions of Portfolio that suspend at a request
PortfolioCalls == {"loadPortfolio", "refreshPrices", "removeHolding"}

\* the useState cells of Portfolio, and none of its functions called
InitPortfolio ==
    /\ portfolioHoldings = <<>>
    /\ stats = zeroStats
    /\ portfolioLoading = TRUE
    /\ refreshing = FALSE
    /\ portfolioError = ""
    /\ awaiting = [f \in PortfolioCalls |-> 0]

\* the useState cells of StockSearch that the search box uses, no timer set
\* (timeoutId undefined is 0) and no request sent (outcome none); a selected
\* stock is given by its symbol, and selectedStock null is the empty text
InitSearch ==
    /\ query = <<>>
    /\ searchResults = <<>>
    /\ showSuggestions = FALSE
    /\ searchLoading = FALSE
    /\ selectedStock = <<>>
    /\ timeoutId = 0
    /\ timers = {}
    /\ inFlight = <<>>
    /\ lastSearch = [query |-> <<>>, outcome |-> "none"]
    /\ blurTimers = <<>>

\* the page /dashboard as rendered for a signed-in user
InitAuth ==
    /\ user = "user"
    /\ authLoading = FALSE
    /\ location = "/dashboard"
    /\ rendered = "dashboard"
    /\ navigatePending = FALSE
    /\ signOuts = 0

InitHedgingStrategy ==
    /\ strategy = "collar"
    /\ currentPrice = 100
    /\ putStrike = 95
    /\ callStrike = 110
    /\ putPremium = <<"1", "0">>
    /\ callPremium = <<"1", "0">>

Init ==
    /\ InitHedgingStrategy
    /\ InitStockSearch
    /\ InitDashboardPage
    /\ InitDatabase
    /\ InitPortfolio
    /\ InitSearch
    /\ InitAuth

setStrategy(s) ==
    /\ strategy' = s
    /\ UNCHANGED <<currentPrice, putStrike, callStrike, putPremium, callPremium>>
    /\ UNCHANGED outsideHedging

setCurrentPrice(v) ==
    /\ currentPrice' = v
    /\ UNCHANGED <<strategy, putStrike, callStrike, putPremium, callPremium>>
    /\ UNCHANGED outsideHedging

\* the put strike slider hands over a position between its min and its max
setPutStrike(v) ==
    /\ v \in SliderValues(SliderMin, PutStrikeMax)
    /\ putStrike' = v
    /\ UNCHANGED <<strategy, currentPrice, callStrike, putPremium, callPremium>>
    /\ UNCHANGED outsideHedging

\* the second strike slider, when rendered, hands over a position between
\* its min and its max
setCallStrike(v) ==
    /\ SecondLegShown
    /\ v \in SliderValues(CallStrikeMin, SliderMax)
    /\ callStrike' = v
    /\ UNCHANGED <<strategy, currentPrice, putStrike, putPremium, callPremium>>
    /\ UNCHANGED outsideHedging

setPutPremium(text) ==
    /\ putPremium' = text
    /\ UNCHANGED <<strategy, currentPrice, putStrike, callStrike, callPremium>>
    /\ UNCHANGED outsideHedging

setCallPremium(text) ==
    /\ SecondLegShown
    /\ callPremium' = text
    /\ UNCHANGED <<strategy, currentPrice, putStrike, callStrike, putPremium>>
    /\ UNCHANGED outsideHedging

Next ==
    \/ \E s \in Strategies : setStrategy(s)
    \/ \E v \in SliderValues(SliderMin, SliderMax) : setCurrentPrice(v)
    \/ \E v \in SliderMin..SliderMax : setPutStrike(v)
    \/ \E v \in SliderMin..SliderMax : setCallStrike(v)
    \/ \E text \in PremiumTexts : setPutPremium(text)
    \/ \E text \in PremiumTexts : setCallPremium(text)

Spec == Init /\ [][Next]_vars

---------------------------------------------------------------------------
(* Values derived on every render *)

\* first and last price of the loop in generatePayoffData
GridLo == 85
GridHi == 120

\* const stockGain = price - currentPrice[0]
stockGain(price) == Sub(price, Lit(currentPrice))

\* Math.max(strike - price, 0) - parseFloat(premium)
longPutPayoff(strike, premium, price) ==
    Sub(MathMax2(Sub(Lit(strike), price), Lit(0)), parseFloat(premium))

\* -Math.max(price - callStrike[0], 0) + parseFloat(callPremium)
callPayoff(price) ==
    Add(Neg(MathMax2(Sub(price, Lit(callStrike)), Lit(0))), parseFloat(callPremium))

\* -Math.max(callStrike[0] - price, 0) + parseFloat(callPremium)
shortPutPayoff(price) ==
    Add(Neg(MathMax2(Sub(Lit(callStrike), price), Lit(0))), parseFloat(callPremium))

\* the loop body: the payoff at one price, before it is rounded
payoffAt(price) ==
    IF strategy = "collar"
      THEN Add(Add(stockGain(price), longPutPayoff(putStrike, putPremium, price)),
               callPayoff(price))
    ELSE IF strategy = "protective_put"
      THEN Add(stockGain(price), longPutPayoff(putStrike, putPremium, price))
    ELSE IF strategy = "bear_put_spread"
      THEN Add(longPutPayoff(putStrike, putPremium, price), shortPutPayoff(price))
    ELSE Lit(0)

\* Math.round(payoff * 100) / 100
roundedPayoff(payoff) == DivideBy100(MathRound(Times100(payoff)))

\* the loop of generatePayoffData run from price lo to price hi
payoffDataOver(lo, hi) ==
    [i \in 1..(hi - lo + 1) |->
        [price |-> lo + i - 1, payoff |-> roundedPayoff(payoffAt(Lit(lo + i - 1)))]]

generatePayoffData == payoffDataOver(GridLo, GridHi)

payoffData == generatePayoffData

getBreakeven ==
    IF strategy = "collar"
      THEN Sub(Add(Lit(currentPrice), parseFloat(callPremium)), parseFloat(putPremium))
    ELSE IF strategy = "protective_put"
      THEN Add(Lit(currentPrice), parseFloat(putPremium))
    ELSE IF strategy = "bear_put_spread"
      THEN Add(Sub(Lit(putStrike), parseFloat(putPremium)), parseFloat(callPremium))
    ELSE Lit(currentPrice)

breakeven == getBreakeven

\* payoffData.map(d => d.payoff)
payoffsOf(data) == [i \in 1..Len(data) |-> data[i].payoff]

maxLoss == MathMin(payoffsOf(payoffData))

maxGain == MathMax(payoffsOf(payoffData))

\* a summary cell: React renders the number it is given as its text
Shown(x) == [kind |-> IF x = NaN THEN "NaN" ELSE "number", value |-> x]

\* what the three summary cells show
breakevenShown == Shown(MathRound(breakeven))

maxLossShown == Shown(MathRound(maxLoss))

maxGainShown == Shown(MathRound(maxGain))

---------------------------------------------------------------------------
(* Vocabulary of the properties *)

Zero == Lit(0)

GridPoints == 1..(GridHi - GridLo + 1)

\* the number a premium text stands for
Premium == [text \in PremiumTexts |-> parseFloatOf(text)]

\* the value of a long put struck at strike, at expiry price p, net of its premium
LongPutLeg(strike, premium, p) ==
    Sub(MathMax2(Sub(Lit(strike), Lit(p)), Zero), Premium[premium])

\* the value of a short call struck at strike, plus the premium received
ShortCallLeg(strike, premium, p) ==
    Add(Neg(MathMax2(Sub(Lit(p), Lit(strike)), Zero)), Premium[premium])

\* the value of a short put struck at strike, plus the premium received
ShortPutLeg(strike, premium, p) ==
    Add(Neg(MathMax2(Sub(Lit(strike), Lit(p)), Zero)), Premium[premium])

\* the stock leg
StockLeg(p) == Sub(Lit(p), Lit(currentPrice))

---------------------------------------------------------------------------
(* C1: for every strategy and every strike setting, the payoff computed at *)
(* price == currentPrice is -(premium paid) + (premium received):          *)
(* -putPremium for protective_put, -putPremium + callPremium for collar    *)
(* and bear_put_spread.                                                    *)

EntryCost ==
    IF strategy = "protective_put" THEN Neg(Premium[putPremium])
    ELSE Add(Neg(Premium[putPremium]), Premium[callPremium])

C1_PayoffAtEntryIsNetPremium ==
    \A i \in GridPoints :
        LET point == payoffData[i]
        IN  point.price = currentPrice => point.payoff = EntryCost

---------------------------------------------------------------------------
(* C2: at every grid price P the protective_put payoff is                  *)
(* (P - currentPrice) + max(putStrike - P, 0) - putPremium and the collar  *)
(* payoff is that plus -max(P - callStrike, 0) + callPremium.              *)

StockAndPutAndCall(p) ==
    IF strategy = "collar"
      THEN Add(Add(StockLeg(p), LongPutLeg(putStrike, putPremium, p)),
               ShortCallLeg(callStrike, callPremium, p))
      ELSE Add(StockLeg(p), LongPutLeg(putStrike, putPremium, p))

C2_PayoffIsSumOfLegs ==
    strategy \in {"protective_put", "collar"} =>
        \A i \in GridPoints :
            LET point == payoffData[i]
            IN  point.payoff = StockAndPutAndCall(point.price)

---------------------------------------------------------------------------
(* C3: the bear_put_spread payoff at every grid price is the long put on   *)
(* putStrike plus the short put on the second strike, with no stock leg:   *)
(* changing currentPrice alone never changes a point of the curve.  The    *)
(* formula is the first half, the half the stored curve fails.             *)

PutSpread(p) ==
    Add(LongPutLeg(putStrike, putPremium, p), ShortPutLeg(callStrike, callPremium, p))

C3_SpreadIsSumOfPutLegs ==
    strategy = "bear_put_spread" =>
        \A i \in GridPoints :
            LET point == payoffData[i]
            IN  point.payoff = PutSpread(point.price)

---------------------------------------------------------------------------
(* C4: while the strategy is protective_put or collar, the put strike is   *)
(* strictly below the current price, in every state the select and the     *)
(* sliders can reach.                                                      *)

C4_PutStrikeBelowSpot ==
    strategy \in {"protective_put", "collar"} => putStrike < currentPrice

---------------------------------------------------------------------------
(* C5: while the strategy is bear_put_spread, the long-put strike          *)
(* (putStrike) exceeds the short-put strike (callStrike) by a positive     *)
(* spread width.                                                           *)

C5_LongPutAboveShortPut ==
    strategy = "bear_put_spread" => putStrike - callStrike > 0

---------------------------------------------------------------------------
(* C6: for collar and bear_put_spread the reported max gain and max loss   *)
(* are the strategy's theoretical cap and floor, and widening the price    *)
(* grid does not change them.  Both curves are flat below the lowest and   *)
(* above the highest strike, so the cap and floor are the extremes over    *)
(* any grid that contains every slider position.                           *)

WidePayoffs == payoffsOf(payoffDataOver(WideLo, WideHi))

C6_MaxGainLossAreCapAndFloor ==
    strategy \in {"collar", "bear_put_spread"} =>
        /\ maxGain = MathMax(WidePayoffs)
        /\ maxLoss = MathMin(WidePayoffs)

---------------------------------------------------------------------------
(* C7: for protective_put the max gain is reported as unbounded, never as  *)
(* a finite number taken from the truncated grid.                          *)

C7_ProtectivePutGainUnbounded ==
    strategy = "protective_put" => maxGainShown.kind = "unbounded"

---------------------------------------------------------------------------
(* C8: for protective_put the reported max loss is the floor               *)
(* putStrike - currentPrice - putPremium, for every put strike the slider  *)
(* can reach, including strikes below the lowest grid price.               *)

PutFloor == Sub(Sub(Lit(putStrike), Lit(currentPrice)), Premium[putPremium])

C8_ProtectivePutLossIsFloor ==
    strategy = "protective_put" => maxLoss = PutFloor

---------------------------------------------------------------------------
(* C9: for a collar the breakeven returned by getBreakeven is a price at   *)
(* which the collar's net payoff is exactly zero, for every pair of        *)
(* premiums; with underlying 100, put strike 95, call strike 110 and both  *)
(* premiums 10 it is 100.  Stated for the collars the spec calls valid     *)
(* (put struck below, call struck above the current price) with premiums   *)
(* that parse, so that a violation is due to getBreakeven alone.           *)

ValidCollar ==
    /\ strategy = "collar"
    /\ putStrike < currentPrice
    /\ currentPrice < callStrike
    /\ Premium[putPremium] # NaN
    /\ Premium[callPremium] # NaN

C9_CollarBreakevenHasZeroPayoff ==
    ValidCollar =>
        /\ payoffAt(getBreakeven) = Zero
        /\ ( /\ currentPrice = 100 /\ putStrike = 95 /\ callStrike = 110
             /\ Premium[putPremium] = Lit(10)
             /\ Premium[callPremium] = Lit(10) )
           => getBreakeven = Lit(100)

---------------------------------------------------------------------------
(* C10: for a protective put the breakeven returned by getBreakeven is     *)
(* currentPrice + putPremium and the net payoff at that price is exactly   *)
(* zero; with underlying 100, put strike 95 and premium 10 it is 110.      *)

C10_ProtectivePutBreakeven ==
    strategy = "protective_put" =>
        /\ getBreakeven = Add(Lit(currentPrice), Premium[putPremium])
        /\ payoffAt(getBreakeven) = Zero
        /\ ( /\ currentPrice = 100 /\ putStrike = 95
             /\ Premium[putPremium] = Lit(10) )
           => getBreakeven = Lit(110)

---------------------------------------------------------------------------
(* C11: for a bear put spread the breakeven returned by getBreakeven is a  *)
(* price at which the bear_put_spread payoff computed by                   *)
(* generatePayoffData (long put on putStrike plus short put on the second  *)
(* strike) is exactly zero.                                                *)

C11_SpreadBreakevenHasZeroPayoff ==
    strategy = "bear_put_spread" => payoffAt(getBreakeven) = Zero

---------------------------------------------------------------------------
(* C12: when the payoff sequence over the evaluated grid has no sign       *)
(* change (the curve is everywhere positive or everywhere negative), the   *)
(* breakeven is reported as undefined/null and not as a number.            *)

\* every payoff of the grid is a number, and all are above or all below zero
NoSignChange ==
    \/ \A i \in GridPoints : \E v \in payoffData[i].payoff : v > 0
    \/ \A i \in GridPoints : \E v \in payoffData[i].payoff : v < 0

C12_NoSignChangeNoBreakeven ==
    NoSignChange => breakevenShown.kind # "number"

---------------------------------------------------------------------------
(* C13: a premium text that is non-numeric or non-positive is rejected     *)
(* before the payoff computation: generatePayoffData, getBreakeven and the *)
(* max gain/loss summary are only ever evaluated with premiums that parse  *)
(* to positive numbers, so no displayed payoff value is NaN.  The put      *)
(* premium enters every strategy, the second premium the two strategies    *)
(* that render its input.                                                  *)

IsPositive(x) == \E v \in x : v > 0

C13_PremiumsValidatedBeforePayoff ==
    /\ IsPositive(Premium[putPremium])
    /\ SecondLegShown => IsPositive(Premium[callPremium])
    /\ \A i \in GridPoints : payoffData[i].payoff # NaN
    /\ breakevenShown.kind # "NaN"
    /\ maxLossShown.kind # "NaN"
    /\ maxGainShown.kind # "NaN"

---------------------------------------------------------------------------
(* StockSearch: the search box.  Specification SpecSearch.                 *)
(*                                                                         *)
(* Time passes in steps of at most TimeStep milliseconds, up to the moment *)
(* the next timer is due; a timer runs its callback when its delay has     *)
(* passed, before more time passes.  The handlers of the search input are  *)
(* taken as they are, whichever element has the focus.  A query            *)
(* and a symbol are texts (sequences of one-character strings).  A request *)
(* to StockService is in inFlight from the step that sends it to the step  *)
(* that handles its answer.                                                *)

\* how many requests of one kind, and how many timers and requests of the
\* search box together, the model lets be pending
MaxPending == 2

\* milliseconds that pass in one step of the clock
TimeStep == 150

\* the most timers debounce sets
MaxTimers == 2

\* debounce(..., 300)
delay == 300

\* texts typed into the search box
QueryTexts == { <<>>, <<" ">>, <<"a">>, <<"a", "b">> }

\* s without its leading and trailing blanks
RECURSIVE trim(_)
trim(s) ==
    IF Len(s) = 0 THEN s
    ELSE IF s[1] = " " THEN trim(Tail(s))
    ELSE IF s[Len(s)] = " " THEN trim(SubSeq(s, 1, Len(s) - 1))
    ELSE s

\* the symbols the market data server knows, in the order it lists them
ListedSymbols == << <<"A">>, <<"A", "B">> >>

toUpperCase(s) ==
    [i \in 1..Len(s) |->
        IF s[i] = "a" THEN "A" ELSE IF s[i] = "b" THEN "B" ELSE s[i]]

startsWith(s, prefix) ==
    /\ Len(prefix) <= Len(s)
    /\ SubSeq(s, 1, Len(prefix)) = prefix

matches(q, symbol) == startsWith(symbol, toUpperCase(trim(q)))

\* the results a successful StockService.searchStock(q) returns, each result
\* given by its symbol: none for a blank query, else what the server lists
searchStock(q) ==
    IF trim(q) = <<>> THEN <<>>
    ELSE SelectSeq(ListedSymbols, LAMBDA symbol : matches(q, symbol))

\* the requests of inFlight that are searches
IsSearch(r) == r.call \in {"debouncedSearch", "handleSearch"}

\* clearTimeout that clears nothing
clearTimeout_nothing(id) == timers

\* the pending timers after clearTimeout(id)
clearTimeout(id) == {t \in timers : t.id # id}

\* the debounced function is called with args: the pending timer is
\* cleared and a new one is set
debounced(args) ==
    /\ timeoutId < MaxTimers
    /\ timeoutId' = timeoutId + 1
    /\ timers' = clearTimeout(timeoutId) \cup
                    {[id |-> timeoutId + 1, args |-> args, remaining |-> delay]}

\* the effect on query, run after a render in which query has changed
queryEffect(q) ==
    IF Len(q) >= 1
      THEN /\ debounced(q)
           /\ UNCHANGED <<searchResults, showSuggestions>>
      ELSE /\ searchResults' = <<>>
           /\ showSuggestions' = FALSE
           /\ UNCHANGED <<timeoutId, timers>>

\* the requests and timers a step leaves pending stay within the bound
withinBound ==
    Len(inFlight') + Cardinality(timers') + Len(blurTimers') <= MaxPending

\* what the handlers of the search box cannot touch
outsideSearch ==
    <<hedgingVars, dbVars, pageVars, portfolioVars, authVars, showAddDialog,
      stockToAdd, quantity, purchaseType, dollarAmount, addingToPortfolio,
      addRequests>>

\* typing in the search box, and the effect on query
handleInputChange(text) ==
    /\ text # query
    /\ query' = text
    /\ selectedStock' = <<>>
    /\ queryEffect(text)
    /\ UNCHANGED <<searchLoading, error, inFlight, lastSearch, blurTimers>>
    /\ withinBound
    /\ UNCHANGED outsideSearch

\* onFocus of the search input
onFocus ==
    /\ showSuggestions' = (Len(searchResults) > 0)
    /\ UNCHANGED <<query, searchResults, searchLoading, selectedStock,
                   timeoutId, timers, inFlight, lastSearch, blurTimers, error>>
    /\ UNCHANGED outsideSearch

\* setTimeout(() => setShowSuggestions(false), 200)
blurDelay == 200

\* onBlur of the search input: a timer of blurDelay milliseconds is set
onBlur ==
    /\ blurTimers' = Append(blurTimers, blurDelay)
    /\ UNCHANGED <<query, searchResults, showSuggestions, searchLoading,
                   selectedStock, timeoutId, timers, inFlight, lastSearch,
                   error>>
    /\ withinBound
    /\ UNCHANGED outsideSearch

\* the timer onBlur has set first runs its callback
blurTimerFires ==
    /\ Len(blurTimers) > 0
    /\ Head(blurTimers) = 0
    /\ blurTimers' = Tail(blurTimers)
    /\ showSuggestions' = FALSE
    /\ UNCHANGED <<query, searchResults, searchLoading, selectedStock,
                   timeoutId, timers, inFlight, lastSearch, error>>
    /\ UNCHANGED outsideSearch

\* what the pending timers still have to run
Remaining ==
    {t.remaining : t \in timers} \cup {blurTimers[i] : i \in 1..Len(blurTimers)}

\* the time that passes in one step: TimeStep, or less when a timer is due
\* earlier
elapsed ==
    CHOOSE d \in Remaining \cup {TimeStep} :
        \A e \in Remaining \cup {TimeStep} : d <= e

\* time passes
tick ==
    /\ Remaining # {}
    /\ \A r \in Remaining : r > 0
    /\ timers' = {[t EXCEPT !.remaining = @ - elapsed] : t \in timers}
    /\ blurTimers' = [i \in 1..Len(blurTimers) |-> blurTimers[i] - elapsed]
    /\ UNCHANGED <<query, searchResults, showSuggestions, searchLoading,
                   selectedStock, timeoutId, inFlight, lastSearch, error>>
    /\ UNCHANGED outsideSearch

\* the timer with this id runs the function debounce wraps, up to its await
timerFires(id) ==
    \E t \in timers :
        /\ t.id = id
        /\ t.remaining = 0
        /\ timers' = timers \ {t}
        /\ IF trim(t.args) = <<>>
             THEN /\ searchResults' = <<>>
                  /\ showSuggestions' = FALSE
                  /\ UNCHANGED <<searchLoading, error, inFlight, lastSearch>>
             ELSE /\ searchLoading' = TRUE
                  /\ error' = ""
                  /\ inFlight' = Append(inFlight,
                         [call |-> "debouncedSearch", query |-> t.args])
                  /\ lastSearch' = [query |-> t.args, outcome |-> "pending"]
                  /\ UNCHANGED <<searchResults, showSuggestions>>
        /\ UNCHANGED <<query, selectedStock, timeoutId, blurTimers>>
        /\ UNCHANGED outsideSearch

\* Enter in the search box, or a click on Search: handleSearch up to its
\* await
handleSearch ==
    /\ trim(query) # <<>>
    /\ searchLoading' = TRUE
    /\ error' = ""
    /\ showSuggestions' = FALSE
    /\ inFlight' = Append(inFlight, [call |-> "handleSearch", query |-> query])
    /\ lastSearch' = [query |-> query, outcome |-> "pending"]
    /\ UNCHANGED <<query, searchResults, selectedStock, timeoutId, timers,
                   blurTimers>>
    /\ withinBound
    /\ UNCHANGED outsideSearch

\* a click on a listed result: handleSelectStock up to its await, and the
\* effect on query
handleSelectStock(result) ==
    /\ \E i \in 1..Len(searchResults) : searchResults[i] = result
    /\ showSuggestions \/ selectedStock = <<>>
    /\ query' = result
    /\ searchLoading' = TRUE
    /\ error' = ""
    /\ inFlight' =
           Append(inFlight, [call |-> "handleSelectStock", query |-> result])
    /\ IF result # query
         THEN /\ debounced(result)
              /\ showSuggestions' = FALSE
              /\ UNCHANGED searchResults
         ELSE /\ showSuggestions' = FALSE
              /\ UNCHANGED <<searchResults, timeoutId, timers>>
    /\ UNCHANGED <<selectedStock, lastSearch, blurTimers>>
    /\ withinBound
    /\ UNCHANGED outsideSearch

\* inFlight without its i-th request
without(i) == SubSeq(inFlight, 1, i - 1) \o SubSeq(inFlight, i + 1, Len(inFlight))

\* the i-th request in flight is the search sent last
IsLast(i) == \A j \in (i + 1)..Len(inFlight) : ~IsSearch(inFlight[j])

\* lastSearch after the i-th request in flight, a search, has settled
settled(i, outcome) ==
    IF IsLast(i) /\ lastSearch.outcome = "pending"
      THEN [lastSearch EXCEPT !.outcome = outcome]
      ELSE lastSearch

\* the i-th request in flight resolves: the rest of the function that sent it
requestResolved(i) ==
    /\ i <= Len(inFlight)
    /\ inFlight' = without(i)
    /\ searchLoading' = FALSE
    /\ IF inFlight[i].call = "debouncedSearch"
         THEN /\ searchResults' = searchStock(inFlight[i].query)
              /\ showSuggestions' = TRUE
              /\ lastSearch' = settled(i, "resolved")
              /\ UNCHANGED selectedStock
         ELSE IF inFlight[i].call = "handleSearch"
         THEN /\ searchResults' = searchStock(inFlight[i].query)
              /\ lastSearch' = settled(i, "resolved")
              /\ UNCHANGED <<showSuggestions, selectedStock>>
         ELSE /\ selectedStock' = inFlight[i].query
              /\ UNCHANGED <<searchResults, showSuggestions, lastSearch>>
    /\ UNCHANGED <<query, timeoutId, timers, error, blurTimers>>
    /\ UNCHANGED outsideSearch

\* the i-th request in flight rejects: catch and finally of the function
\* that sent it
requestRejected(i) ==
    /\ i <= Len(inFlight)
    /\ inFlight' = without(i)
    /\ searchLoading' = FALSE
    /\ IF inFlight[i].call = "debouncedSearch"
         THEN /\ error' = "Failed to search stocks"
              /\ searchResults' = <<>>
              /\ showSuggestions' = FALSE
              /\ lastSearch' = settled(i, "rejected")
         ELSE IF inFlight[i].call = "handleSearch"
         THEN /\ error' = "Failed to search stocks"
              /\ searchResults' = <<>>
              /\ lastSearch' = settled(i, "rejected")
              /\ UNCHANGED showSuggestions
         ELSE /\ error' = "Failed to get stock details"
              /\ UNCHANGED <<searchResults, showSuggestions, lastSearch>>
    /\ UNCHANGED <<query, selectedStock, timeoutId, timers, blurTimers>>
    /\ UNCHANGED outsideSearch

NextSearch ==
    \/ \E text \in QueryTexts : handleInputChange(text)
    \/ onFocus
    \/ onBlur
    \/ blurTimerFires
    \/ tick
    \/ \E id \in 1..MaxTimers : timerFires(id)
    \/ handleSearch
    \/ \E k \in 1..Len(ListedSymbols) : handleSelectStock(ListedSymbols[k])
    \/ \E i \in 1..MaxPending : requestResolved(i)
    \/ \E i \in 1..MaxPending : requestRejected(i)

SpecSearch == Init /\ [][NextSearch]_vars

---------------------------------------------------------------------------
(* StockSearch: the add-to-portfolio dialog, and the refresh callback of   *)
(* DashboardPage and Portfolio.  Specification SpecAdd: the steps of the   *)
(* dialog together with those of the search box, which write the same      *)
(* error cell.  A stock is given by its symbol, and stockToAdd null is the *)
(* empty text.                                                             *)

\* symbols of the stocks a search can have selected
Stocks == {ListedSymbols[k] : k \in 1..Len(ListedSymbols)}

\* texts typed into the quantity and the dollar amount input: nothing, a
\* whole number, zero, a negative number, a decimal number, letters
TypedTexts ==
    { <<>>,
      <<"3">>,
      <<"0">>,
      <<"-", "2">>,
      <<"2", ".", "5">>,
      <<"a", "b", "c">> }

\* the texts typed into the two inputs while the whole component runs: a
\* whole number, zero, letters
DialogTexts == { <<"3">>, <<"0">>, <<"a", "b", "c">> }

\* the text is a valid floating-point number, the only texts an
\* <input type="number"> reports as its value (exponents are outside the
\* modelled alphabet)
IsValidNumber(text) ==
    LET u    == IF Len(text) > 0 /\ text[1] = "-" THEN Tail(text) ELSE text
        nInt == DigitRun(u)
        rest == SubSeq(u, nInt + 1, Len(u))
    IN  \/ nInt > 0 /\ rest = <<>>
        \/ /\ Len(rest) > 1
           /\ rest[1] = "."
           /\ DigitRun(Tail(rest)) = Len(rest) - 1

\* e.target.value of an <Input type="number"> after the user typed the
\* text: the text itself if it is a valid number, the empty string if not
NumberInputValue(typed) ==
    IF IsValidNumber(typed) THEN typed ELSE <<>>

NumberInputValues == {NumberInputValue(typed) : typed \in TypedTexts}

\* a <= b of two JavaScript numbers: false if either is NaN
LessOrEqual(a, b) == \E x \in a, y \in b : x <= y

\* a < b of two JavaScript numbers: false if either is NaN
LessThan(a, b) == \E x \in a, y \in b : x < y

\* invalidEntry letting zero through: !text || parseFloat(text) < 0
invalidEntry_zeroAllowed(text) ==
    text = <<>> \/ LessThan(parseFloat(text), Lit(0))

\* !text || parseFloat(text) <= 0
invalidEntry(text) ==
    text = <<>> \/ LessOrEqual(parseFloat(text), Lit(0))

\* the dialog is rendered: showAddDialog && stockToAdd
dialogShown == showAddDialog /\ stockToAdd # <<>>

\* addButtonDisabled without its first disjunct, addingToPortfolio
addButtonDisabled_whileAdding ==
    \/ purchaseType = "shares" /\ invalidEntry(quantity)
    \/ purchaseType = "dollars" /\ invalidEntry(dollarAmount)

\* disabled of the dialog's Add to Portfolio button
addButtonDisabled ==
    \/ addingToPortfolio
    \/ purchaseType = "shares" /\ invalidEntry(quantity)
    \/ purchaseType = "dollars" /\ invalidEntry(dollarAmount)

\* an optional field of a request that was not assigned
Undefined == [defined |-> FALSE, value |-> NaN]

\* an optional field of a request that was assigned the number x
Defined(x) == [defined |-> TRUE, value |-> x]

\* the AddHoldingRequest that confirmAddToPortfolio builds
request ==
    [ symbol   |-> toUpperCase(trim(stockToAdd)),
      type     |-> purchaseType,
      quantity |-> IF purchaseType = "shares"
                     THEN Defined(parseFloat(quantity)) ELSE Undefined,
      amount   |-> IF purchaseType = "shares"
                     THEN Undefined ELSE Defined(parseFloat(dollarAmount)) ]

\* what a handler of StockSearch's add dialog cannot touch
outsideStockSearch ==
    <<hedgingVars, dbVars, portfolioVars, searchVars, authVars>>

\* values that are functions; every other value of the page is not callable
FunctionValues == {"loadPortfolio"}

\* what a call of the function returns: loadPortfolio is async
returnValueOf(f) == "Promise"

\* the state a useState setter stores when handed the value action: React
\* runs a function as an updater and stores what it returns
setPortfolioRefresh(action) ==
    IF action \in FunctionValues THEN returnValueOf(action) ELSE action

\* Portfolio's effects have run
Mounted == loadPortfolioCalls > 0

\* The first commit of the page: Portfolio's mount effect calls
\* loadPortfolio(), and its second effect onAddHolding(loadPortfolio), which
\* is DashboardPage's setPortfolioRefresh: React calls loadPortfolio as the
\* updater.
portfolioEffects ==
    /\ ~Mounted
    /\ rendered = "dashboard"
    /\ portfolioRefresh' = setPortfolioRefresh("loadPortfolio")
    /\ loadPortfolioCalls' =
           loadPortfolioCalls + 1
             + (IF "loadPortfolio" \in FunctionValues THEN 1 ELSE 0)
    /\ portfolioHoldings' = <<>>
    /\ stats' = zeroStats
    /\ portfolioLoading' = TRUE
    /\ portfolioError' = ""
    /\ awaiting' =
           [awaiting EXCEPT !["loadPortfolio"] =
                @ + 1 + (IF "loadPortfolio" \in FunctionValues THEN 1 ELSE 0)]
    /\ UNCHANGED refreshing
    /\ UNCHANGED dialogVars
    /\ UNCHANGED <<hedgingVars, dbVars, searchVars, authVars>>

\* a click on Add to Portfolio of the selected stock's card, rendered while
\* selectedStock is set
handleAddToPortfolio ==
    /\ Mounted
    /\ selectedStock # <<>>
    /\ stockToAdd' = selectedStock
    /\ showAddDialog' = TRUE
    /\ quantity' = <<>>
    /\ dollarAmount' = <<>>
    /\ purchaseType' = "shares"
    /\ UNCHANGED <<addingToPortfolio, error, addRequests>>
    /\ UNCHANGED pageVars
    /\ UNCHANGED outsideStockSearch

\* one of the two Purchase Type buttons of the dialog
setPurchaseType(type) ==
    /\ dialogShown
    /\ purchaseType' = type
    /\ UNCHANGED <<showAddDialog, stockToAdd, quantity, dollarAmount,
                   addingToPortfolio, error, addRequests>>
    /\ UNCHANGED pageVars
    /\ UNCHANGED outsideStockSearch

\* onChange of the quantity input, rendered in shares mode
setQuantity(typed) ==
    /\ dialogShown
    /\ purchaseType = "shares"
    /\ quantity' = NumberInputValue(typed)
    /\ UNCHANGED <<showAddDialog, stockToAdd, purchaseType, dollarAmount,
                   addingToPortfolio, error, addRequests>>
    /\ UNCHANGED pageVars
    /\ UNCHANGED outsideStockSearch

\* onChange of the dollar amount input, rendered in dollars mode
setDollarAmount(typed) ==
    /\ dialogShown
    /\ purchaseType = "dollars"
    /\ dollarAmount' = NumberInputValue(typed)
    /\ UNCHANGED <<showAddDialog, stockToAdd, quantity, purchaseType,
                   addingToPortfolio, error, addRequests>>
    /\ UNCHANGED pageVars
    /\ UNCHANGED outsideStockSearch

\* the handler up to its await: the checks, then the request is handed to
\* PortfolioService.addHolding
confirmAddToPortfolio ==
    /\ IF stockToAdd = <<>>
         THEN /\ error' = "No stock selected"
              /\ UNCHANGED <<addingToPortfolio, addRequests>>
       ELSE IF purchaseType = "shares" /\ invalidEntry(quantity)
         THEN /\ error' = "Please enter a valid number of shares"
              /\ UNCHANGED <<addingToPortfolio, addRequests>>
       ELSE IF purchaseType # "shares" /\ invalidEntry(dollarAmount)
         THEN /\ error' = "Please enter a valid dollar amount"
              /\ UNCHANGED <<addingToPortfolio, addRequests>>
       ELSE /\ Len(addRequests) < MaxPending
            /\ addingToPortfolio' = TRUE
            /\ error' = ""
            /\ addRequests' = Append(addRequests, request)
    /\ UNCHANGED <<showAddDialog, stockToAdd, quantity, purchaseType, dollarAmount>>
    /\ UNCHANGED pageVars
    /\ UNCHANGED outsideStockSearch

\* a click on the dialog's Add to Portfolio button
clickAddToPortfolio ==
    /\ dialogShown
    /\ ~addButtonDisabled
    /\ confirmAddToPortfolio

\* the rest of the handler when PortfolioService.addHolding resolves: the
\* dialog is reset and onPortfolioUpdate?.() is called; calling a value that
\* is neither null nor a function throws, and the catch block takes over
addHoldingResolved ==
    /\ Len(addRequests) > 0
    /\ addRequests' = Tail(addRequests)
    /\ showAddDialog' = FALSE
    /\ stockToAdd' = <<>>
    /\ quantity' = <<>>
    /\ dollarAmount' = <<>>
    /\ IF portfolioRefresh = "null"
         THEN /\ error' = ""
              /\ UNCHANGED <<loadPortfolioCalls, portfolioLoading,
                             portfolioError, awaiting>>
       ELSE IF portfolioRefresh \in FunctionValues
         THEN /\ error' = ""
              /\ loadPortfolioCalls' = loadPortfolioCalls + 1
              /\ portfolioLoading' = TRUE
              /\ portfolioError' = ""
              /\ awaiting' = [awaiting EXCEPT !["loadPortfolio"] = @ + 1]
       ELSE /\ error' = "Failed to add stock to portfolio"
            /\ UNCHANGED <<loadPortfolioCalls, portfolioLoading,
                           portfolioError, awaiting>>
    /\ addingToPortfolio' = FALSE
    /\ UNCHANGED <<purchaseType, portfolioRefresh>>
    /\ UNCHANGED <<portfolioHoldings, stats, refreshing>>
    /\ UNCHANGED <<hedgingVars, dbVars, searchVars, authVars>>

\* the rest of the handler when PortfolioService.addHolding throws
addHoldingRejected ==
    /\ Len(addRequests) > 0
    /\ addRequests' = Tail(addRequests)
    /\ error' = "Failed to add stock to portfolio"
    /\ addingToPortfolio' = FALSE
    /\ UNCHANGED <<showAddDialog, stockToAdd, quantity, purchaseType, dollarAmount>>
    /\ UNCHANGED pageVars
    /\ UNCHANGED outsideStockSearch

\* a click on the dialog's Cancel button, disabled while adding
cancelAddToPortfolio ==
    /\ dialogShown
    /\ ~addingToPortfolio
    /\ showAddDialog' = FALSE
    /\ stockToAdd' = <<>>
    /\ quantity' = <<>>
    /\ dollarAmount' = <<>>
    /\ error' = ""
    /\ UNCHANGED <<purchaseType, addingToPortfolio, addRequests>>
    /\ UNCHANGED pageVars
    /\ UNCHANGED outsideStockSearch

NextAdd ==
    \/ portfolioEffects
    \/ handleAddToPortfolio
    \/ \E type \in {"shares", "dollars"} : setPurchaseType(type)
    \/ \E typed \in DialogTexts : setQuantity(typed)
    \/ \E typed \in DialogTexts : setDollarAmount(typed)
    \/ clickAddToPortfolio
    \/ addHoldingResolved
    \/ addHoldingRejected
    \/ cancelAddToPortfolio
    \/ NextSearch

SpecAdd == Init /\ [][NextAdd]_vars

\* every state of the dialog's cells in which confirmAddToPortfolio can be
\* handed control, on the page as it stands once Portfolio's effects have run
InitConfirm ==
    /\ InitHedgingStrategy
    /\ InitDatabase
    /\ InitSearch
    /\ InitAuth
    /\ portfolioRefresh = setPortfolioRefresh("loadPortfolio")
    /\ loadPortfolioCalls = 2
    /\ portfolioHoldings = <<>>
    /\ stats = zeroStats
    /\ portfolioLoading = TRUE
    /\ refreshing = FALSE
    /\ portfolioError = ""
    /\ awaiting = [f \in PortfolioCalls |-> IF f = "loadPortfolio" THEN 2 ELSE 0]
    /\ showAddDialog = TRUE
    /\ stockToAdd \in Stocks \cup {<<>>}
    /\ quantity \in NumberInputValues
    /\ purchaseType \in {"shares", "dollars"}
    /\ dollarAmount \in NumberInputValues
    /\ addingToPortfolio = FALSE
    /\ error \in {"", "Failed to add stock to portfolio"}
    /\ addRequests = <<>>

NextConfirm == confirmAddToPortfolio

SpecConfirm == InitConfirm /\ [][NextConfirm]_vars

---------------------------------------------------------------------------
(* C14: confirmAddToPortfolio sends an add-holding request only when the   *)
(* entered quantity (shares mode) or dollar amount (dollars mode) parses   *)
(* to a positive number; for an empty, non-numeric or non-positive entry   *)
(* it sets an error, sends no request and leaves the dialog state          *)
(* unchanged.  Checked under SpecConfirm, which hands the handler every    *)
(* state of the dialog's cells, the ones in which the button that calls    *)
(* it is disabled included.                                                *)

\* the text the purchase type makes the entry
Entry == IF purchaseType = "shares" THEN quantity ELSE dollarAmount

EntryIsPositiveNumber == IsPositive(parseFloatOf(Entry))

C14_RequestOnlyForPositiveEntry ==
    [][confirmAddToPortfolio =>
         /\ addRequests' # addRequests => EntryIsPositiveNumber
         /\ ~EntryIsPositiveNumber =>
              /\ error' # ""
              /\ addRequests' = addRequests
              /\ UNCHANGED <<showAddDialog, stockToAdd, quantity, purchaseType,
                             dollarAmount, addingToPortfolio>>]_vars

\* the handler has turned down a quantity of zero
C14_Witness ==
    /\ stockToAdd \in Stocks
    /\ purchaseType = "shares"
    /\ quantity = <<"0">>
    /\ error = "Please enter a valid number of shares"
    /\ addRequests = <<>>
    /\ ~addingToPortfolio

---------------------------------------------------------------------------
(* C20: after PortfolioService.addHolding succeeds inside                  *)
(* confirmAddToPortfolio, the add dialog is closed, no error is shown, and *)
(* the Portfolio component's loadPortfolio is invoked so that the          *)
(* displayed holdings are refreshed: the refresh callback registered by    *)
(* Portfolio through DashboardPage's portfolioRefresh state is the one     *)
(* StockSearch calls.                                                      *)

C20_SuccessfulAddRefreshesPortfolio ==
    [][addHoldingResolved =>
         /\ showAddDialog' = FALSE
         /\ error' = ""
         /\ portfolioRefresh = "loadPortfolio"
         /\ loadPortfolioCalls' = loadPortfolioCalls + 1]_vars

---------------------------------------------------------------------------
(* DatabaseService over the tables of schema.sql.  A table is the set of   *)
(* its rows, a row a record of the columns that carry a constraint or a    *)
(* reference; a nullable column holds a set of at most one value, NULL     *)
(* being the empty set.  Ids are the values of one counter (a uuid is      *)
(* never handed out twice).  Row level security, the columns without       *)
(* constraints (names, prices of the market, timestamps, the nine metric   *)
(* columns of risk_metrics) and the tables users, stock_data,              *)
(* user_sessions and leaderboard are not modelled.  dbError names the      *)
(* constraint because of which the last call threw, "none" if it returned. *)

\* how many rows the model lets be inserted, over all tables
MaxRows == 3

NULL == {}

\* the ids the database can hand out
Ids == 1..MaxRows

\* a nullable reference a caller can pass
Refs == {NULL} \cup {{id} : id \in Ids}

\* numbers a caller passes as shares: zero, a positive number
SharesValues == {{0}, {2}}

\* numbers a caller passes as entry_price: none, zero, a positive price
EntryPriceValues == {NULL, {0}, {5}}

\* a JSONB value a caller passes: null/undefined, or a document
JsonValues == {NULL, {"{}"}}

idsOf(table) == {row.id : row \in table}

\* a caller passes NULL or an id the database has handed out, whether or
\* not its row still exists
known(ref) == ref \subseteq 1..lastId

\* a foreign key column holds NULL or the id of a row of the table
references(ref, table) == ref \subseteq idsOf(table)

\* what a handler of DatabaseService cannot touch
outsideDatabase ==
    <<hedgingVars, dialogVars, pageVars, portfolioVars, searchVars, authVars>>

\* the call returns without storing anything and throws the error
throws(err) ==
    /\ dbError' = err
    /\ UNCHANGED <<portfolios, holdings, hedging_strategies, risk_metrics,
                   simulation_results, pet_states, lastId>>

createPortfolio ==
    /\ lastId < MaxRows
    /\ lastId' = lastId + 1
    /\ portfolios' = portfolios \cup {[id |-> lastId + 1]}
    /\ dbError' = "none"
    /\ UNCHANGED <<holdings, hedging_strategies, risk_metrics,
                   simulation_results, pet_states>>
    /\ UNCHANGED outsideDatabase

\* the foreign key that keeps a portfolio's id from changing: the first of
\* the tables created after portfolios that has a row of the portfolio
\* (their foreign keys have no ON UPDATE action), "none" if no row has.
\* user_sessions, created last, has such a key too; no method of
\* DatabaseService writes it, so it has no row.
referencedBy(id) ==
    IF \E row \in holdings : row.portfolio_id = {id}
      THEN "holdings_portfolio_id_fkey"
    ELSE IF \E row \in hedging_strategies : row.portfolio_id = {id}
      THEN "hedging_strategies_portfolio_id_fkey"
    ELSE IF \E row \in risk_metrics : row.portfolio_id = {id}
      THEN "risk_metrics_portfolio_id_fkey"
    ELSE IF \E row \in pet_states : row.portfolio_id = {id}
      THEN "pet_states_portfolio_id_fkey"
    ELSE IF \E row \in simulation_results : row.portfolio_id = {id}
      THEN "simulation_results_portfolio_id_fkey"
    ELSE "none"

\* the columns an update names
named(updates) == {c \in DOMAIN updates : updates[c].defined}

\* the id of the portfolio after the update
updatedId(id, updates) ==
    IF updates.id.defined THEN updates.id.value ELSE id

\* update(updates).eq('id', id).select().single() on portfolios: single()
\* is an error when no row has the id, and when updates names no column,
\* because the request then updates and returns no row; name is NOT NULL;
\* id is the primary key and is referenced by the other tables
updatePortfolio(id, updates) ==
    /\ known({id})
    /\ known({updatedId(id, updates)})
    /\ IF id \notin idsOf(portfolios) \/ named(updates) = {}
         THEN throws("PGRST116")
       ELSE IF updates.name.defined /\ updates.name.value = NULL
         THEN throws("portfolios.name not-null")
       ELSE IF updatedId(id, updates) # id
                 /\ updatedId(id, updates) \in idsOf(portfolios)
         THEN throws("portfolios_pkey")
       ELSE IF updatedId(id, updates) # id /\ referencedBy(id) # "none"
         THEN throws(referencedBy(id))
       ELSE /\ portfolios' =
                  {row \in portfolios : row.id # id}
                      \cup {[id |-> updatedId(id, updates)]}
            /\ dbError' = "none"
            /\ UNCHANGED <<holdings, hedging_strategies, risk_metrics,
                           simulation_results, pet_states, lastId>>
    /\ UNCHANGED outsideDatabase

\* DELETE FROM portfolios WHERE id = ..., with the ON DELETE actions of the
\* tables that reference portfolios and hedging_strategies
deletePortfolio(id) ==
    LET gone == {row.id : row \in {st \in hedging_strategies : st.portfolio_id = {id}}}
    IN  /\ known({id})
        /\ portfolios' = {row \in portfolios : row.id # id}
        /\ holdings' = {row \in holdings : row.portfolio_id # {id}}
        /\ hedging_strategies' =
               {row \in hedging_strategies : row.portfolio_id # {id}}
        /\ risk_metrics' =
               { IF row.strategy_id \cap gone # {}
                   THEN [row EXCEPT !.strategy_id = NULL] ELSE row :
                 row \in {rm \in risk_metrics : rm.portfolio_id # {id}} }
        /\ simulation_results' =
               { row \in simulation_results :
                   row.portfolio_id # {id} /\ row.strategy_id \cap gone = {} }
        /\ pet_states' = {row \in pet_states : row.portfolio_id # {id}}
        /\ dbError' = "none"
        /\ UNCHANGED lastId
        /\ UNCHANGED outsideDatabase

\* the constraint of holdings a row violates, "none" if it violates none:
\* shares NOT NULL, CHECK (shares > 0), the foreign key; entry_price has no
\* constraint
holdingsViolation(row) ==
    IF row.shares = NULL THEN "holdings.shares not-null"
    ELSE IF \E v \in row.shares : ~(v > 0) THEN "positive_shares"
    ELSE IF ~references(row.portfolio_id, portfolios)
      THEN "holdings_portfolio_id_fkey"
    ELSE "none"

\* the constraint of holdings an update of row to changed violates: as for
\* an insert, with the primary key checked before the foreign key
holdingsUpdateViolation(row, changed) ==
    IF changed.id # row.id /\ changed.id \in idsOf(holdings)
         /\ holdingsViolation(changed) \in {"none", "holdings_portfolio_id_fkey"}
      THEN "holdings_pkey"
    ELSE holdingsViolation(changed)

addHolding(holding) ==
    /\ lastId < MaxRows
    /\ known(holding.portfolio_id)
    /\ IF holdingsViolation(holding) # "none"
         THEN throws(holdingsViolation(holding))
       ELSE /\ lastId' = lastId + 1
            /\ holdings' = holdings \cup
                   {[ id          |-> lastId + 1,
                      portfolio_id |-> holding.portfolio_id,
                      shares      |-> holding.shares,
                      entry_price |-> holding.entry_price ]}
            /\ dbError' = "none"
            /\ UNCHANGED <<portfolios, hedging_strategies, risk_metrics,
                           simulation_results, pet_states>>
    /\ UNCHANGED outsideDatabase

\* the row with the columns named in updates overwritten
updated(row, updates) ==
    [ row EXCEPT
        !.id          = IF updates.id.defined THEN updates.id.value ELSE @,
        !.portfolio_id = IF updates.portfolio_id.defined
                           THEN updates.portfolio_id.value ELSE @,
        !.shares      = IF updates.shares.defined
                          THEN updates.shares.value ELSE @,
        !.entry_price = IF updates.entry_price.defined
                          THEN updates.entry_price.value ELSE @ ]

\* update(updates).eq('id', id).select().single(): single() is an error
\* when no row has the id, and when updates names no column, because the
\* request then updates and returns no row
updateHolding(id, updates) ==
    /\ known({id})
    /\ updates.id.defined => known({updates.id.value})
    /\ IF id \notin idsOf(holdings) \/ named(updates) = {}
         THEN throws("PGRST116")
       ELSE LET row == CHOOSE h \in holdings : h.id = id
            IN  IF holdingsUpdateViolation(row, updated(row, updates)) # "none"
                  THEN throws(holdingsUpdateViolation(row, updated(row, updates)))
                ELSE /\ holdings' =
                           (holdings \ {row}) \cup {updated(row, updates)}
                     /\ dbError' = "none"
                     /\ UNCHANGED <<portfolios, hedging_strategies,
                                    risk_metrics, simulation_results,
                                    pet_states, lastId>>
    /\ UNCHANGED outsideDatabase

deleteHolding(id) ==
    /\ known({id})
    /\ holdings' = {row \in holdings : row.id # id}
    /\ dbError' = "none"
    /\ UNCHANGED <<portfolios, hedging_strategies, risk_metrics,
                   simulation_results, pet_states, lastId>>
    /\ UNCHANGED outsideDatabase

\* the strategy's type, name and parameters are taken as given
createHedgingStrategy(portfolio_id) ==
    /\ lastId < MaxRows
    /\ known(portfolio_id)
    /\ IF ~references(portfolio_id, portfolios)
         THEN throws("hedging_strategies_portfolio_id_fkey")
       ELSE /\ lastId' = lastId + 1
            /\ hedging_strategies' = hedging_strategies \cup
                   {[id |-> lastId + 1, portfolio_id |-> portfolio_id]}
            /\ dbError' = "none"
            /\ UNCHANGED <<portfolios, holdings, risk_metrics,
                           simulation_results, pet_states>>
    /\ UNCHANGED outsideDatabase

\* the constraint of risk_metrics a row violates: its two foreign keys are
\* all it has
riskMetricsViolation(row) ==
    IF ~references(row.portfolio_id, portfolios)
      THEN "risk_metrics_portfolio_id_fkey"
    ELSE IF ~references(row.strategy_id, hedging_strategies)
      THEN "risk_metrics_strategy_id_fkey"
    ELSE "none"

\* a plain insert
saveRiskMetrics(metrics) ==
    /\ lastId < MaxRows
    /\ known(metrics.portfolio_id)
    /\ known(metrics.strategy_id)
    /\ IF riskMetricsViolation(metrics) # "none"
         THEN throws(riskMetricsViolation(metrics))
       ELSE /\ lastId' = lastId + 1
            /\ risk_metrics' = risk_metrics \cup
                   {[ id           |-> lastId + 1,
                      portfolio_id |-> metrics.portfolio_id,
                      strategy_id  |-> metrics.strategy_id,
                      is_hedged    |-> metrics.is_hedged ]}
            /\ dbError' = "none"
            /\ UNCHANGED <<portfolios, holdings, hedging_strategies,
                           simulation_results, pet_states>>
    /\ UNCHANGED outsideDatabase

\* the NOT NULL column of simulation_results that is NULL in the row, with
\* results taken to be nullable
simulationNotNullViolation_resultsNullable(row) ==
    IF row.parameters = NULL THEN "simulation_results.parameters not-null"
    ELSE IF row.summary_stats = NULL THEN "simulation_results.summary_stats not-null"
    ELSE "none"

\* the NOT NULL column of simulation_results that is NULL in the row
simulationNotNullViolation(row) ==
    IF row.parameters = NULL THEN "simulation_results.parameters not-null"
    ELSE IF row.results = NULL THEN "simulation_results.results not-null"
    ELSE IF row.summary_stats = NULL THEN "simulation_results.summary_stats not-null"
    ELSE "none"

\* the constraint of simulation_results a row violates; simulation_type is
\* taken as given and as one of the three the CHECK lists
simulationViolation(row) ==
    IF simulationNotNullViolation(row) # "none"
      THEN simulationNotNullViolation(row)
    ELSE IF ~references(row.portfolio_id, portfolios)
      THEN "simulation_results_portfolio_id_fkey"
    ELSE IF ~references(row.strategy_id, hedging_strategies)
      THEN "simulation_results_strategy_id_fkey"
    ELSE "none"

\* a plain insert
saveSimulationResults(simulation) ==
    /\ lastId < MaxRows
    /\ known(simulation.portfolio_id)
    /\ known(simulation.strategy_id)
    /\ IF simulationViolation(simulation) # "none"
         THEN throws(simulationViolation(simulation))
       ELSE /\ lastId' = lastId + 1
            /\ simulation_results' = simulation_results \cup
                   {[ id              |-> lastId + 1,
                      portfolio_id    |-> simulation.portfolio_id,
                      strategy_id     |-> simulation.strategy_id,
                      parameters      |-> simulation.parameters,
                      results         |-> simulation.results,
                      summary_stats   |-> simulation.summary_stats ]}
            /\ dbError' = "none"
            /\ UNCHANGED <<portfolios, holdings, hedging_strategies, risk_metrics,
                           pet_states>>
    /\ UNCHANGED outsideDatabase

\* the pet_states row an upsert proposes: portfolio_id is portfolioId unless
\* updates names the column too ({ portfolio_id: portfolioId, ...updates });
\* id is the one updates names, else a generated one
proposed(portfolioId, updates) ==
    [ id           |-> IF updates.id.defined THEN updates.id.value
                       ELSE lastId + 1,
      portfolio_id |-> IF updates.portfolio_id.defined
                         THEN updates.portfolio_id.value ELSE {portfolioId} ]

\* the constraint of pet_states an upsert violates, "none" if it violates
\* none: CHECK (health_level BETWEEN 1 AND 5) on the proposed row, then
\* UNIQUE(portfolio_id) against the rows with another id, then the foreign
\* key
petStatesViolation(row, updates) ==
    IF updates.health_level.defined
         /\ \E v \in updates.health_level.value : ~(1 <= v /\ v <= 5)
      THEN "pet_states_health_level_check"
    ELSE IF \E other \in pet_states :
                /\ other.id # row.id
                /\ row.portfolio_id # NULL
                /\ other.portfolio_id = row.portfolio_id
      THEN "pet_states_portfolio_id_key"
    ELSE IF ~references(row.portfolio_id, portfolios)
      THEN "pet_states_portfolio_id_fkey"
    ELSE "none"

\* upsert({ portfolio_id: portfolioId, ...updates }).select().single(): an
\* INSERT whose conflict target is the primary key, so it updates the row
\* with the id updates names and inserts in every other case
updatePetState(portfolioId, updates) ==
    /\ known({portfolioId})
    /\ IF updates.id.defined
         THEN known({updates.id.value}) ELSE lastId < MaxRows
    /\ LET row == proposed(portfolioId, updates)
       IN  IF petStatesViolation(row, updates) # "none"
             THEN throws(petStatesViolation(row, updates))
           ELSE /\ pet_states' =
                      {other \in pet_states : other.id # row.id} \cup {row}
                /\ lastId' = IF updates.id.defined THEN lastId ELSE lastId + 1
                /\ dbError' = "none"
                /\ UNCHANGED <<portfolios, holdings, hedging_strategies,
                               risk_metrics, simulation_results>>
    /\ UNCHANGED outsideDatabase

\* the rows a caller can pass to addHolding
HoldingInserts ==
    [portfolio_id : Refs, shares : SharesValues, entry_price : EntryPriceValues]

\* an optional column of an update: left out, or given a value
Optional(values) == {Undefined} \cup {Defined(v) : v \in values}

\* the id column of an update: left out, or given an id
OptionalId ==
    {[defined |-> FALSE, value |-> 0]}
        \cup {[defined |-> TRUE, value |-> id] : id \in Ids}

\* how many columns the model lets an update name
MaxColumns == 1

\* the updates a caller can pass to updateHolding
HoldingUpdates ==
    { updates \in [ id : OptionalId, portfolio_id : Optional(Refs),
                    shares : Optional(SharesValues),
                    entry_price : Optional(EntryPriceValues) ] :
        Cardinality(named(updates)) <= MaxColumns }

\* the names a caller passes to updatePortfolio: null, a name
NameValues == {NULL, {"name"}}

\* the updates a caller can pass to updatePortfolio
PortfolioUpdates ==
    { updates \in [id : OptionalId, name : Optional(NameValues)] :
        Cardinality(named(updates)) <= MaxColumns }

\* numbers a caller passes as health_level: null, one outside 1..5, one
\* inside
HealthLevels == {NULL, {0}, {3}}

\* the updates a caller can pass to updatePetState
PetStateUpdates ==
    { updates \in [ id : OptionalId, portfolio_id : Optional(Refs),
                    health_level : Optional(HealthLevels) ] :
        Cardinality(named(updates)) <= MaxColumns }

\* the rows a caller can pass to saveRiskMetrics
RiskMetricsInserts ==
    [portfolio_id : Refs, strategy_id : Refs, is_hedged : BOOLEAN]

\* the rows a caller can pass to saveSimulationResults
SimulationInserts ==
    [ portfolio_id : Refs, strategy_id : Refs,
      parameters : JsonValues, results : JsonValues, summary_stats : JsonValues ]

NextDb ==
    \/ createPortfolio
    \/ \E id \in Ids, updates \in PortfolioUpdates : updatePortfolio(id, updates)
    \/ \E id \in Ids : deletePortfolio(id)
    \/ \E holding \in HoldingInserts : addHolding(holding)
    \/ \E id \in Ids, updates \in HoldingUpdates : updateHolding(id, updates)
    \/ \E id \in Ids : deleteHolding(id)
    \/ \E portfolio_id \in Refs : createHedgingStrategy(portfolio_id)
    \/ \E metrics \in RiskMetricsInserts : saveRiskMetrics(metrics)
    \/ \E simulation \in SimulationInserts : saveSimulationResults(simulation)
    \/ \E portfolioId \in Ids, updates \in PetStateUpdates :
           updatePetState(portfolioId, updates)

SpecDb == Init /\ [][NextDb]_vars

---------------------------------------------------------------------------
(* C16: no partial SimulationRun is ever exposed as complete: every        *)
(* simulation_results record stored through saveSimulationResults has all  *)
(* of parameters, results and summary_stats present, and an attempt to     *)
(* store a record missing any of them fails without storing anything.      *)
(* An attempt is seen in a step either by the error it leaves in dbError   *)
(* or, for the records below, by the step being one of                     *)
(* saveSimulationResults on that record.                                   *)

Complete(row) ==
    /\ row.parameters # NULL
    /\ row.results # NULL
    /\ row.summary_stats # NULL

\* the records that lack at least one of the three and reference nothing
IncompleteRuns ==
    { [ portfolio_id |-> NULL, strategy_id |-> NULL,
        parameters |-> fields[1], results |-> fields[2],
        summary_stats |-> fields[3] ] :
      fields \in (JsonValues \X JsonValues \X JsonValues)
                    \ {<<{"{}"}, {"{}"}, {"{}"}>>} }

MissingFieldErrors ==
    { "simulation_results.parameters not-null",
      "simulation_results.results not-null",
      "simulation_results.summary_stats not-null" }

NothingStored ==
    UNCHANGED <<portfolios, holdings, hedging_strategies, risk_metrics,
                simulation_results>>

C16_NoPartialSimulationStored ==
    [][/\ \A row \in simulation_results' : Complete(row)
       /\ dbError' \in MissingFieldErrors => NothingStored
       /\ \A simulation \in IncompleteRuns :
            saveSimulationResults(simulation) =>
                (dbError' \in MissingFieldErrors /\ NothingStored)]_vars

\* a complete run is stored, and the attempt after it, which lacked its
\* results, was turned down
C16_Witness ==
    /\ \E row \in simulation_results : Complete(row)
    /\ dbError = "simulation_results.results not-null"

---------------------------------------------------------------------------
(* C17: after any sequence of saveRiskMetrics calls there is at most one   *)
(* risk_metrics record for each (portfolio, strategy, hedged-flag)         *)
(* combination.                                                            *)

C17_OneRecordPerCombination ==
    \A a \in risk_metrics, b \in risk_metrics :
        ( /\ a.portfolio_id = b.portfolio_id
          /\ a.strategy_id = b.strategy_id
          /\ a.is_hedged = b.is_hedged ) => a = b

---------------------------------------------------------------------------
(* C18: a stored risk_metrics record is immutable: after creation, no      *)
(* sequence of DatabaseService operations (including deleting a portfolio, *)
(* with the schema's cascading and SET NULL foreign-key actions) changes   *)
(* any field of a record that still exists.                                *)

C18_RiskMetricsImmutable ==
    [][\A before \in risk_metrics : \A after \in risk_metrics' :
           after.id = before.id => after = before]_vars

---------------------------------------------------------------------------
(* C19: every holding record that exists after any sequence of             *)
(* DatabaseService.addHolding and updateHolding calls has shares > 0 and   *)
(* entry price > 0; an insert or update that would break either bound is   *)
(* rejected and leaves the stored holdings unchanged.  Stated so that a    *)
(* holding stored without an entry price does not count against it: a      *)
(* stored value that is not above zero does.                               *)

C19_HoldingsPositive ==
    \A row \in holdings :
        /\ \A v \in row.shares : v > 0
        /\ \A v \in row.entry_price : v > 0

---------------------------------------------------------------------------
(* C26: from the add-to-portfolio dialog at most one add-holding request   *)
(* is in flight at a time: while addingToPortfolio is true neither a       *)
(* second confirm nor a cancel can take effect, and addingToPortfolio      *)
(* returns to false when the request ends, whether it succeeded or failed. *)
(* A second confirm would add a request; a cancel would close the dialog   *)
(* while the request stays in flight.                                      *)

C26_OneAddRequestInFlight ==
    [][/\ Len(addRequests') <= 1
       /\ addingToPortfolio' <=> Len(addRequests') = 1
       /\ addingToPortfolio => Len(addRequests') <= Len(addRequests)
       /\ (addingToPortfolio /\ addRequests' = addRequests) =>
              (showAddDialog /\ showAddDialog')
       /\ Len(addRequests') < Len(addRequests) => ~addingToPortfolio']_vars

\* the request has failed: the dialog is still open and can be confirmed again
C26_Witness ==
    /\ dialogShown
    /\ ~addingToPortfolio
    /\ addRequests = <<>>
    /\ error = "Failed to add stock to portfolio"

---------------------------------------------------------------------------
(* DashboardPage and Portfolio.  Specification SpecPage.                   *)
(*                                                                         *)
(* useAuth() hands the page a user (or null) and a loading flag; the page  *)
(* re-renders whenever they change.  Portfolio is mounted while the page   *)
(* renders the dashboard content.  A call of one of Portfolio's async      *)
(* functions runs up to its await in the step that calls it and is counted *)
(* in awaiting until the request settles; the step that settles it runs    *)
(* the rest of the function.                                               *)

\* the most calls of loadPortfolio a mounted Portfolio makes
MaxLoads == 4

Users == {"user"}

\* the Errors getPortfolio rejects with, by their message
ErrorMessages == {"User not authenticated", "Failed to fetch"}

Rejections == {[isError |-> TRUE, message |-> m] : m \in ErrorMessages}

\* the Errors PortfolioService.removeHolding rejects with: the second carries
\* the error text of the server's answer
RemoveRejections ==
    {[isError |-> TRUE, message |-> m] :
        m \in {"User not authenticated", "Holding not found"}}

\* err instanceof Error ? err.message : fallback
messageOf(err, fallback) == IF err.isError THEN err.message ELSE fallback

\* a PortfolioHolding, given by its id and its symbol
Holding(id, symbol) == [id |-> id, symbol |-> symbol]

\* the PortfolioData the server answers getPortfolio with: no holding, one,
\* two, and one whose symbol is blank
FetchedPortfolios ==
    { [holdings |-> <<>>, stats |-> zeroStats],
      [holdings |-> <<Holding("h1", <<"A">>)>>,
       stats |-> [totalValue |-> 150, totalGainLoss |-> 50,
                  totalGainLossPercent |-> 50, totalInvested |-> 100]],
      [holdings |-> <<Holding("h1", <<"A">>), Holding("h2", <<"A", "B">>)>>,
       stats |-> [totalValue |-> 270, totalGainLoss |-> -30,
                  totalGainLossPercent |-> -10, totalInvested |-> 300]],
      [holdings |-> <<Holding("h3", <<" ">>)>>,
       stats |-> [totalValue |-> 80, totalGainLoss |-> 0,
                  totalGainLossPercent |-> 0, totalInvested |-> 80]] }

HoldingIds == {"h1", "h2", "h3"}

\* the requests of Portfolio that have not settled
TotalAwaiting ==
    awaiting["loadPortfolio"] + awaiting["refreshPrices"]
        + awaiting["removeHolding"]

\* Portfolio renders its cards, not the "Loading portfolio..." card
portfolioShown == Mounted /\ ~portfolioLoading

\* holdings.filter(h => h.symbol && h.symbol.trim()): the holdings that are
\* counted and listed
filteredHoldings ==
    SelectSeq(portfolioHoldings,
              LAMBDA h : h.symbol # <<>> /\ trim(h.symbol) # <<>>)

\* disabled of the Refresh button
refreshDisabled == refreshing \/ Len(filteredHoldings) = 0

\* what Portfolio's handlers cannot touch
outsidePortfolio ==
    <<hedgingVars, dialogVars, dbVars, searchVars, authVars, portfolioRefresh>>

\* DashboardPage without its  if (!user) return null
DashboardPage_withoutUserGuard(u, l) ==
    IF l THEN "Loading" ELSE "dashboard"

\* what DashboardPage returns for the user and loading of useAuth()
DashboardPage(u, l) ==
    IF l THEN "Loading"
    ELSE IF u = "null" THEN "null"
    ELSE "dashboard"

\* an effect of the last render has not run yet; React runs the effects of
\* a render before it renders again
effectsPending == navigatePending \/ (rendered = "dashboard" /\ ~Mounted)

\* StockSearch, Portfolio and HedgingStrategy are unmounted: a later mount
\* starts from the useState initial values, and what their timers and
\* requests still do reaches no mounted component
unmountContent ==
    /\ portfolioHoldings' = <<>>
    /\ stats' = zeroStats
    /\ portfolioLoading' = TRUE
    /\ refreshing' = FALSE
    /\ portfolioError' = ""
    /\ awaiting' = [f \in PortfolioCalls |-> 0]
    /\ loadPortfolioCalls' = 0
    /\ showAddDialog' = FALSE
    /\ stockToAdd' = <<>>
    /\ quantity' = <<>>
    /\ purchaseType' = "shares"
    /\ dollarAmount' = <<>>
    /\ addingToPortfolio' = FALSE
    /\ error' = ""
    /\ addRequests' = <<>>
    /\ query' = <<>>
    /\ searchResults' = <<>>
    /\ showSuggestions' = FALSE
    /\ searchLoading' = FALSE
    /\ selectedStock' = <<>>
    /\ timeoutId' = 0
    /\ timers' = {}
    /\ inFlight' = <<>>
    /\ lastSearch' = [query |-> <<>>, outcome |-> "none"]
    /\ blurTimers' = <<>>
    /\ strategy' = "collar"
    /\ currentPrice' = 100
    /\ putStrike' = 95
    /\ callStrike' = 110
    /\ putPremium' = <<"1", "0">>
    /\ callPremium' = <<"1", "0">>

\* DashboardPage renders with the values of useAuth(), and its effect has
\* navigate('/login') to call when not loading and without a user.  The
\* components of the dashboard content stay mounted while the content is
\* rendered again; otherwise they are unmounted.
renderDashboardPage(u, l) ==
    /\ rendered' = DashboardPage(u, l)
    /\ navigatePending' = (~l /\ u = "null")
    /\ IF rendered = "dashboard" /\ DashboardPage(u, l) = "dashboard"
         THEN UNCHANGED <<portfolioVars, loadPortfolioCalls, dialogVars,
                          searchVars, hedgingVars>>
         ELSE unmountContent

\* the AuthProvider hands useAuth() a new user or loading value, and the
\* page at /dashboard renders again
useAuth(u, l) ==
    /\ ~effectsPending
    /\ <<u, l>> # <<user, authLoading>>
    /\ user' = u
    /\ authLoading' = l
    /\ IF location = "/dashboard"
         THEN renderDashboardPage(u, l)
         ELSE UNCHANGED <<rendered, navigatePending, portfolioVars,
                          loadPortfolioCalls, dialogVars, searchVars,
                          hedgingVars>>
    /\ UNCHANGED <<location, signOuts, portfolioRefresh, dbVars>>

\* the effect of DashboardPage after a render without loading and without a
\* user: navigate('/login') takes the router off the page, which is
\* unmounted with its portfolioRefresh cell
navigateEffect ==
    /\ navigatePending
    /\ navigatePending' = FALSE
    /\ location' = "/login"
    /\ portfolioRefresh' = "null"
    /\ UNCHANGED <<user, authLoading, rendered, signOuts>>
    /\ UNCHANGED <<portfolioVars, loadPortfolioCalls, dialogVars, searchVars,
                   hedgingVars, dbVars>>

\* the router is sent to /dashboard from another page: DashboardPage is
\* mounted and renders
visitDashboard ==
    /\ ~navigatePending
    /\ location # "/dashboard"
    /\ location' = "/dashboard"
    /\ portfolioRefresh' = "null"
    /\ renderDashboardPage(user, authLoading)
    /\ UNCHANGED <<user, authLoading, signOuts>>
    /\ UNCHANGED dbVars

\* the router leaves /dashboard: DashboardPage and the components of the
\* dashboard content are unmounted
unmountDashboardPage ==
    /\ rendered' = "null"
    /\ portfolioRefresh' = "null"
    /\ unmountContent

\* Navbar is rendered with the dashboard content, and the effects of that
\* render have run before a click is handled
navbarShown == rendered = "dashboard" /\ Mounted

\* a click on one of Navbar's Links, to "/" or to "/dashboard"
Link(to) ==
    /\ navbarShown
    /\ location' = to
    /\ IF to = location
         THEN UNCHANGED <<rendered, portfolioRefresh, portfolioVars,
                          loadPortfolioCalls, dialogVars, searchVars,
                          hedgingVars>>
         ELSE unmountDashboardPage
    /\ UNCHANGED <<user, authLoading, navigatePending, signOuts>>
    /\ UNCHANGED dbVars

\* a click on Navbar's sign-out button: handleSignOut up to its await
handleSignOut ==
    /\ navbarShown
    /\ signOuts < MaxPending
    /\ signOuts' = signOuts + 1
    /\ UNCHANGED <<user, authLoading, location, rendered, navigatePending>>
    /\ UNCHANGED <<portfolioRefresh, portfolioVars, loadPortfolioCalls,
                   dialogVars, searchVars, hedgingVars, dbVars>>

\* signOut() of a handleSignOut resolves: navigate('/'), whether or not
\* Navbar is still mounted
signOutResolved ==
    /\ signOuts > 0
    /\ signOuts' = signOuts - 1
    /\ location' = "/"
    /\ unmountDashboardPage
    /\ UNCHANGED <<user, authLoading, navigatePending>>
    /\ UNCHANGED dbVars

\* signOut() of a handleSignOut rejects: the handler throws
signOutRejected ==
    /\ signOuts > 0
    /\ signOuts' = signOuts - 1
    /\ UNCHANGED <<user, authLoading, location, rendered, navigatePending>>
    /\ UNCHANGED <<portfolioRefresh, portfolioVars, loadPortfolioCalls,
                   dialogVars, searchVars, hedgingVars, dbVars>>

\* a click on Refresh: refreshPrices up to its await
refreshPrices ==
    /\ portfolioShown
    /\ ~refreshDisabled
    /\ TotalAwaiting < MaxPending
    /\ refreshing' = TRUE
    /\ portfolioError' = ""
    /\ awaiting' = [awaiting EXCEPT !["refreshPrices"] = @ + 1]
    /\ UNCHANGED <<portfolioHoldings, stats, portfolioLoading>>
    /\ UNCHANGED loadPortfolioCalls
    /\ UNCHANGED outsidePortfolio

\* getPortfolio of a refreshPrices resolves with portfolioData
refreshPricesResolved(portfolioData) ==
    /\ awaiting["refreshPrices"] > 0
    /\ portfolioHoldings' = portfolioData.holdings
    /\ stats' = portfolioData.stats
    /\ refreshing' = FALSE
    /\ awaiting' = [awaiting EXCEPT !["refreshPrices"] = @ - 1]
    /\ UNCHANGED <<portfolioLoading, portfolioError>>
    /\ UNCHANGED loadPortfolioCalls
    /\ UNCHANGED outsidePortfolio

\* refreshPricesRejected with the catch block of loadPortfolio, which empties
\* the portfolio
refreshPricesRejected_emptying(err) ==
    /\ awaiting["refreshPrices"] > 0
    /\ portfolioError' = messageOf(err, "Failed to refresh prices")
    /\ portfolioHoldings' = <<>>
    /\ stats' = zeroStats
    /\ refreshing' = FALSE
    /\ awaiting' = [awaiting EXCEPT !["refreshPrices"] = @ - 1]
    /\ UNCHANGED portfolioLoading
    /\ UNCHANGED loadPortfolioCalls
    /\ UNCHANGED outsidePortfolio

\* getPortfolio of a refreshPrices rejects with err
refreshPricesRejected(err) ==
    /\ awaiting["refreshPrices"] > 0
    /\ portfolioError' = messageOf(err, "Failed to refresh prices")
    /\ refreshing' = FALSE
    /\ awaiting' = [awaiting EXCEPT !["refreshPrices"] = @ - 1]
    /\ UNCHANGED <<portfolioHoldings, stats, portfolioLoading>>
    /\ UNCHANGED loadPortfolioCalls
    /\ UNCHANGED outsidePortfolio

\* a click on the trash button of a listed holding: removeHolding up to its
\* await
removeHolding(holdingId) ==
    /\ portfolioShown
    /\ \E i \in 1..Len(filteredHoldings) : filteredHoldings[i].id = holdingId
    /\ TotalAwaiting < MaxPending
    /\ loadPortfolioCalls + awaiting["removeHolding"] < MaxLoads
    /\ awaiting' = [awaiting EXCEPT !["removeHolding"] = @ + 1]
    /\ UNCHANGED <<portfolioHoldings, stats, portfolioLoading, refreshing,
                   portfolioError>>
    /\ UNCHANGED loadPortfolioCalls
    /\ UNCHANGED outsidePortfolio

\* the delete request of a removeHolding resolves: it calls loadPortfolio,
\* which runs up to its await
removeHoldingResolved ==
    /\ awaiting["removeHolding"] > 0
    /\ portfolioLoading' = TRUE
    /\ portfolioError' = ""
    /\ loadPortfolioCalls' = loadPortfolioCalls + 1
    /\ awaiting' = [awaiting EXCEPT !["removeHolding"] = @ - 1,
                                    !["loadPortfolio"] = @ + 1]
    /\ UNCHANGED <<portfolioHoldings, stats, refreshing>>
    /\ UNCHANGED outsidePortfolio

\* the delete request of a removeHolding rejects with err
removeHoldingRejected(err) ==
    /\ awaiting["removeHolding"] > 0
    /\ portfolioError' = messageOf(err, "Failed to remove holding")
    /\ awaiting' = [awaiting EXCEPT !["removeHolding"] = @ - 1]
    /\ UNCHANGED <<portfolioHoldings, stats, portfolioLoading, refreshing>>
    /\ UNCHANGED loadPortfolioCalls
    /\ UNCHANGED outsidePortfolio

\* getPortfolio of a loadPortfolio resolves with portfolioData
loadPortfolioResolved(portfolioData) ==
    /\ awaiting["loadPortfolio"] > 0
    /\ portfolioHoldings' = portfolioData.holdings
    /\ stats' = portfolioData.stats
    /\ portfolioLoading' = FALSE
    /\ awaiting' = [awaiting EXCEPT !["loadPortfolio"] = @ - 1]
    /\ UNCHANGED <<refreshing, portfolioError>>
    /\ UNCHANGED loadPortfolioCalls
    /\ UNCHANGED outsidePortfolio

\* getPortfolio of a loadPortfolio rejects with err
loadPortfolioRejected(err) ==
    /\ awaiting["loadPortfolio"] > 0
    /\ portfolioError' = messageOf(err, "Failed to load portfolio")
    /\ portfolioHoldings' = <<>>
    /\ stats' = zeroStats
    /\ portfolioLoading' = FALSE
    /\ awaiting' = [awaiting EXCEPT !["loadPortfolio"] = @ - 1]
    /\ UNCHANGED refreshing
    /\ UNCHANGED loadPortfolioCalls
    /\ UNCHANGED outsidePortfolio

\* the application has just started: the AuthProvider is still loading
InitPage ==
    /\ InitHedgingStrategy
    /\ InitStockSearch
    /\ InitDashboardPage
    /\ InitDatabase
    /\ InitPortfolio
    /\ InitSearch
    /\ user = "null"
    /\ authLoading = TRUE
    /\ location = "/dashboard"
    /\ rendered = DashboardPage("null", TRUE)
    /\ navigatePending = FALSE
    /\ signOuts = 0

NextPage ==
    \/ \E u \in Users \cup {"null"}, l \in BOOLEAN : useAuth(u, l)
    \/ navigateEffect
    \/ visitDashboard
    \/ \E to \in {"/", "/dashboard"} : Link(to)
    \/ handleSignOut
    \/ signOutResolved
    \/ signOutRejected
    \/ portfolioEffects
    \/ refreshPrices
    \/ \E portfolioData \in FetchedPortfolios :
           refreshPricesResolved(portfolioData)
    \/ \E err \in Rejections : refreshPricesRejected(err)
    \/ \E holdingId \in HoldingIds : removeHolding(holdingId)
    \/ removeHoldingResolved
    \/ \E err \in RemoveRejections : removeHoldingRejected(err)
    \/ \E portfolioData \in FetchedPortfolios :
           loadPortfolioResolved(portfolioData)
    \/ \E err \in Rejections : loadPortfolioRejected(err)

SpecPage == InitPage /\ [][NextPage]_vars

---------------------------------------------------------------------------
(* C21: when loadPortfolio's fetch fails, the displayed portfolio starts   *)
(* empty: holdings is the empty list, all four stats are 0, error holds    *)
(* the failure message, and loading ends false; when it succeeds, holdings *)
(* and stats are exactly the fetched ones and error is empty.              *)

C21_LoadPortfolioOutcome ==
    [][/\ \A err \in Rejections :
              loadPortfolioRejected(err) =>
                  /\ portfolioHoldings' = <<>>
                  /\ stats' = zeroStats
                  /\ portfolioError' = err.message
                  /\ ~portfolioLoading'
       /\ \A portfolioData \in FetchedPortfolios :
              loadPortfolioResolved(portfolioData) =>
                  /\ portfolioHoldings' = portfolioData.holdings
                  /\ stats' = portfolioData.stats
                  /\ portfolioError' = ""]_vars

---------------------------------------------------------------------------
(* C27: a failed refreshPrices, and a removeHolding whose delete request   *)
(* fails, leave holdings and stats exactly as they were and only set       *)
(* error; removeHolding reloads the portfolio only after the delete        *)
(* request succeeded.  Read per step: the step that handles the failure    *)
(* changes error and nothing else of what Portfolio displays (a failed     *)
(* refreshPrices also ends its own refreshing flag), and a mounted         *)
(* Portfolio calls loadPortfolio again only in a step that ends a delete   *)
(* request without an error.                                               *)

C27_FailuresOnlySetError ==
    [][/\ \A err \in Rejections :
              refreshPricesRejected(err) =>
                  /\ portfolioHoldings' = portfolioHoldings
                  /\ stats' = stats
                  /\ portfolioLoading' = portfolioLoading
                  /\ portfolioError' = err.message
                  /\ loadPortfolioCalls' = loadPortfolioCalls
       /\ \A err \in RemoveRejections :
              removeHoldingRejected(err) =>
                  /\ portfolioHoldings' = portfolioHoldings
                  /\ stats' = stats
                  /\ portfolioLoading' = portfolioLoading
                  /\ refreshing' = refreshing
                  /\ portfolioError' = err.message
                  /\ loadPortfolioCalls' = loadPortfolioCalls
       /\ (Mounted /\ loadPortfolioCalls' > loadPortfolioCalls) =>
              /\ awaiting'["removeHolding"] = awaiting["removeHolding"] - 1
              /\ portfolioError' = ""]_vars

\* a delete request has failed: its message is shown, the holdings are still
\* listed and no loadPortfolio has been called since the mount
C27_Witness ==
    /\ portfolioError = "Holding not found"
    /\ portfolioHoldings # <<>>
    /\ loadPortfolioCalls = 2
    /\ TotalAwaiting = 0

---------------------------------------------------------------------------
(* C28: DashboardPage never renders the dashboard content (stock search,   *)
(* portfolio, hedging strategy) while there is no authenticated user:      *)
(* while auth is loading it shows only the loading view, and once loading  *)
(* is false with no user it renders nothing and navigates to /login: the   *)
(* render returns null, and the next step of the page is the effect that   *)
(* navigates; only sign-out requests that settle can come before it.       *)
(* Checked for every sequence of user and loading values useAuth() can     *)
(* hand the page.                                                          *)

\* what the page shows for the values of useAuth()
C28_Shown ==
    /\ rendered = "dashboard" => (user \in Users /\ ~authLoading)
    /\ Mounted => (user \in Users /\ ~authLoading)
    /\ (authLoading /\ location = "/dashboard") => rendered = "Loading"
    /\ (~authLoading /\ user = "null" /\ location = "/dashboard") =>
           (rendered = "null" /\ navigatePending)
    /\ navigatePending => (rendered = "null" /\ ~authLoading /\ user = "null")

C28_NoDashboardWithoutUser ==
    /\ C28_Shown
    /\ [][/\ C28_Shown'
          /\ navigatePending =>
                \/ location' = "/login" /\ ~navigatePending'
                \/ navigatePending' /\ signOuts' < signOuts]_vars

\* auth has finished loading without a user: the page returned null, no
\* Portfolio is mounted and the router is at /login
C28_Witness ==
    /\ user = "null"
    /\ ~authLoading
    /\ rendered = "null"
    /\ location = "/login"
    /\ ~navigatePending
    /\ ~Mounted
    /\ portfolioRefresh = "null"

---------------------------------------------------------------------------
(* C22: for the debounce wrapper with delay d: among calls that each       *)
(* arrive less than d after the previous one, the wrapped function runs    *)
(* exactly once, d after the last call and with the last call's arguments; *)
(* at most one timer is pending at any time.                               *)
(* Per step: a call leaves exactly one timer, with the call's arguments    *)
(* and the whole delay still to run, so the timer of an earlier call is    *)
(* gone without having run; a pending timer keeps its arguments and only   *)
(* time shortens what remains of its delay; a timer that goes without a    *)
(* new call has no delay left and runs the wrapped function with its       *)
(* arguments; and the wrapped function runs in no other way.               *)

TimerIds(ts) == {t.id : t \in ts}

\* the step sends the search the wrapped function makes for args
SendsDebouncedSearch(args) ==
    inFlight' = Append(inFlight, [call |-> "debouncedSearch", query |-> args])

C22_DebounceRunsOnceAfterDelay ==
    [][/\ Cardinality(timers') <= 1
       /\ timeoutId' # timeoutId =>
              timers' = {[id |-> timeoutId', args |-> query',
                          remaining |-> delay]}
       /\ \A t \in timers, u \in timers' :
              t.id = u.id => (u.args = t.args /\ u.remaining <= t.remaining)
       /\ \A t \in timers :
              (t.id \notin TimerIds(timers') /\ timeoutId' = timeoutId) =>
                  /\ t.remaining = 0
                  /\ IF trim(t.args) = <<>>
                       THEN searchResults' = <<>> /\ inFlight' = inFlight
                       ELSE SendsDebouncedSearch(t.args)
       /\ \A args \in QueryTexts \cup {ListedSymbols[k] : k \in 1..Len(ListedSymbols)} :
              SendsDebouncedSearch(args) =>
                  \E t \in timers :
                      /\ t.args = args
                      /\ t.remaining = 0
                      /\ timers' = {}]_vars

\* two calls in quick succession, for "a" and then "ab": the second timer
\* has run and sent the only search, for "ab"
C22_Witness ==
    /\ timeoutId = 2
    /\ timers = {}
    /\ query = <<"a", "b">>
    /\ inFlight = <<[call |-> "debouncedSearch", query |-> <<"a", "b">>]>>
    /\ searchResults = <<>>
    /\ error = ""

---------------------------------------------------------------------------
(* C23: once the search query becomes empty, searchResults is empty and    *)
(* showSuggestions is false, and they stay so until the query becomes      *)
(* non-empty again, under every interleaving of pending debounce timers    *)
(* and in-flight search responses.                                         *)

C23_EmptyQueryShowsNothing ==
    query = <<>> => (searchResults = <<>> /\ ~showSuggestions)

---------------------------------------------------------------------------
(* C24: when several searches (debounced or via handleSearch) are in       *)
(* flight and their responses arrive in any order, once all have completed *)
(* the displayed searchResults are the response to the most recently       *)
(* issued search, not a stale response to an earlier query.                *)

SearchesInFlight(requests) ==
    {i \in 1..Len(requests) : IsSearch(requests[i])}

\* what the search sent last has answered: its results, or none when it
\* failed
ResponseOf(search) ==
    IF search.outcome = "resolved" THEN searchStock(search.query) ELSE <<>>

C24_LatestSearchDisplayed ==
    [][(/\ SearchesInFlight(inFlight) # {}
        /\ SearchesInFlight(inFlight') = {}) =>
           searchResults' = ResponseOf(lastSearch')]_vars

---------------------------------------------------------------------------
(* C25: in StockSearch, loading is true whenever at least one search or    *)
(* stock-details request is still in flight, and it is false once none is, *)
(* for every interleaving of debouncedSearch, handleSearch and             *)
(* handleSelectStock.                                                      *)

C25_LoadingWhileInFlight ==
    searchLoading <=> inFlight # <<>>

=============================================================================
